---- MODULE Spec2Model ----
(***************************************************************************)
(* Model of tracker_aprovacao.py: one sweep (main) crawls the listing      *)
(* pages of the CPS portal, processes the documents of every detail page,  *)
(* searches the DOE SP gazette API page by page, and saves the history.    *)
(* The upstream content (listing pages, detail pages, documents, gazette   *)
(* pages) is a scenario; every network call may fail.                      *)
(***************************************************************************)
EXTENDS Integers, Sequences, FiniteSets, TLC

\* ---------------------------------------------------------------- bounds
NumListings == 2       \* listing sources of LISTING_PAGES that are modelled
MaxSweeps == 2         \* sweeps run one after the other
MaxNotif == 2          \* cap of the per-key notification counter
MaxAnchors == 3        \* longest enumerated listing page (SpecLinks)
MaxWords == 2          \* most phrases joined into a document name (SpecPhase)
MaxUnits == 2          \* most pages, paragraphs or cells of a document (SpecMatch)

\* ------------------------------------------------------ program constants
MAX_PROCESSES_PER_PAGE == 50
DOE_PAGE_SIZE == 20

VARIABLES
    upstream,       \* scenario of the upstream content
    sweep,          \* number of the current sweep
    pc,             \* position of main
    disk,           \* content of HISTORY_FILE (a function key -> record)
    history,        \* the in-memory dict of main
    total_new,      \* main: total_new
    li,             \* main: index of the listing in LISTING_PAGES
    soup,           \* discover_detail_links: the fetched page, or None
    ai,             \* discover_detail_links: index of the anchor in the loop
    detail_links,   \* main: detail_links
    di,             \* main: index in detail_links
    old_count,      \* main: old_count
    docs,           \* process_detail_page: docs
    dj,             \* process_detail_page: index in docs
    found,          \* process_detail_page: found
    page,           \* search_doe_sp: page
    new_count,      \* search_doe_sp: new_count
    items,          \* search_doe_sp: items of the fetched page
    hasNext,        \* search_doe_sp: data.get("hasNextPage", False)
    ii,             \* search_doe_sp: index in items
    notif,          \* observer: send_whatsapp calls per key, over all sweeps
    downloads,      \* observer: _download calls per key, over all sweeps
    sent,           \* observer: send_whatsapp calls of this sweep
    lastSend,       \* observer: the last send_whatsapp call
    visited,        \* observer: pages fetched (or tried) in this sweep
    failed,         \* observer: fetches and requests that failed in this sweep
    requests,       \* observer: gazette requests of this search
    evaluated,      \* observer: gazette items iterated in this search
    loaded,         \* observer: the history returned by load_history
    prevClean,      \* observer: the previous sweep had no failed fetch
    sameUpstream,   \* observer: upstream is the one of the previous sweep
    calls,          \* observer: the calls that main made in this sweep
    LISTING_PAGES,  \* the configured listing sources
    arg,            \* the arguments of a function that is run on its own
    ret             \* the value that the function returned

vars == <<upstream, sweep, pc, disk, history, total_new, li, soup, ai,
          detail_links, di, old_count, docs, dj, found, page, new_count,
          items, hasNext, ii, notif, downloads, sent, lastSend, visited,
          failed, requests, evaluated, loaded, prevClean, sameUpstream,
          calls, LISTING_PAGES, arg, ret>>

callVars == <<arg, ret>>
envVars == <<upstream, sweep, prevClean, sameUpstream, LISTING_PAGES, callVars>>
listVars == <<li, soup, ai, detail_links>>
docVars == <<docs, dj, found>>
doeVars == <<page, new_count, items, hasNext, ii>>
sendVars == <<notif, sent, lastSend>>
doeObs == <<requests, evaluated>>

\* ------------------------------------------------------------- helpers
EmptyMap == <<>>
None == "None"
Put(h, k, r) == [x \in (DOMAIN h) \cup {k} |-> IF x = k THEN r ELSE h[x]]
Extends(h1, h2) ==
    /\ DOMAIN h1 \subseteq DOMAIN h2
    /\ \A k \in DOMAIN h1 : h2[k] = h1[k]
Range(s) == {s[i] : i \in 1..Len(s)}
Take(s, n) == IF Len(s) <= n THEN s ELSE SubSeq(s, 1, n)
Count(f, k) == IF k \in DOMAIN f THEN f[k] ELSE 0
Bump(f, k) == Put(f, k, Count(f, k) + 1)

\* ------------------------------------------------- the upstream content
\* Scenario 1: the portal and the gazette before a publication.
\* Scenario 2: the same after one new document and one new gazette item.
\* Scenario 3: a gazette of 3 full pages (hasNextPage false on the third).
Scenarios == {1, 2, 3}
NextUpstream(u) == IF u = 1 THEN {1, 2} ELSE {u}

\* An anchor of a listing page: the form of its href (relative, absolute or
\* javascript:), whether the href holds the detail marker, and the detail
\* page (1, 2, 3, ...) the href resolves to.
Href(form, marker, target) == [form |-> form, marker |-> marker, target |-> target]

ListingPage(u, l) ==
    IF u \in {1, 2}
    THEN CASE l = 1 -> << Href("js", TRUE, 1), Href("rel", TRUE, 1),
                          Href("abs", TRUE, 1), Href("rel", FALSE, 4),
                          Href("rel", TRUE, 2) >>
           [] l = 2 -> << Href("rel", TRUE, 2) >>
           [] OTHER -> << >>
    ELSE CASE l = 1 -> << Href("rel", TRUE, 3) >>
           [] OTHER -> << >>

\* An anchor of a detail page: the resolved URL, the suffix of the href and
\* the text of the anchor.
DocAnchor(url, suffix, text) == [url |-> url, suffix |-> suffix, text |-> text]

DetailPage(u, d) ==
    CASE d = 1 /\ u = 1 -> << DocAnchor(1, "pdf", "edital"), DocAnchor(1, "pdf", "edital"),
                                DocAnchor(9, "aspx", "voltar"), DocAnchor(2, "doc", "edital") >>
      [] d = 1 /\ u = 2 -> << DocAnchor(1, "pdf", "edital"), DocAnchor(1, "pdf", "edital"),
                                DocAnchor(9, "aspx", "voltar"), DocAnchor(2, "doc", "edital"),
                                DocAnchor(3, "DOCX", "") >>
      [] d = 2 -> << DocAnchor(2, "doc", "edital") >>
      [] OTHER -> << >>

\* Document 1 holds the name on its second page; document 2 cannot be
\* opened, though a cell of it holds the name; document 3 holds the name in
\* a cell only; anything else is no document.
\* The content of a document: the texts of its pages (PDF) or paragraphs
\* (word processor), the texts of the cells of its tables in the order of
\* tables, rows and cells, and the step of the reading that raises: 0 the
\* opening of the document, i the reading of its i-th text or cell, -1 none.
Document(texts, cells, error_at) ==
    [ok |-> TRUE, texts |-> texts, cells |-> cells, error_at |-> error_at]

Content(url) ==
    CASE url = 1 -> Document(<<"Edital 01/2026", "1. RENAN BEZERRA DOS SANTOS">>,
                             << >>, -1)
      [] url = 2 -> Document(<<"Lista de inscritos", "Renan Bezerra">>,
                             <<"Renan Bezerra dos Santos">>, 0)
      [] url = 3 -> Document(<<"Classificados">>,
                             <<"1", "Renan Bezerra dos Santos">>, -1)
      [] OTHER -> Document(<< >>, << >>, 0)

\* A page of the gazette API: the ids of its items and its hasNextPage
\* ("absent" when the body has no such field).
DoePage(its, nxt) == [items |-> its, hasNextPage |-> nxt]
FullPage(p) == [i \in 1..DOE_PAGE_SIZE |-> (p - 1) * DOE_PAGE_SIZE + i]

DoeApi(u) ==
    CASE u = 1 -> << DoePage(<<1, 2>>, "true"), DoePage(<<3>>, "absent") >>
      [] u = 2 -> << DoePage(<<4, 1>>, "true"), DoePage(<<2, 3>>, "true") >>
      [] OTHER -> << DoePage(FullPage(1), "true"), DoePage(FullPage(2), "true"),
                     DoePage(FullPage(3), "false") >>

DoeResponse(u, p) ==
    IF p <= Len(DoeApi(u)) THEN DoeApi(u)[p] ELSE DoePage(<< >>, "false")

\* ------------------------------------------------- strings and patterns
\* A string is a TLA+ string; Char(s, i) is its i-th character.
Char(s, i) == SubSeq(s, i, i)
UpperChars == "ABCDEFGHIJKLMNOPQRSTUVWXYZÇÃÁÉÍÓÚÂÊÔÕ"
LowerChars == "abcdefghijklmnopqrstuvwxyzçãáéíóúâêôõ"
Whitespace == {" ", "\t", "\n", "\r", "\f"}

\* str.lower(), one character.
LowerOf == [c \in {Char(UpperChars, i) : i \in 1..Len(UpperChars)} |->
              Char(LowerChars, CHOOSE i \in 1..Len(UpperChars) : Char(UpperChars, i) = c)]
lower_char(c) == IF c \in DOMAIN LowerOf THEN LowerOf[c] ELSE c

\* str.lower().
RECURSIVE lower(_)
lower(s) == IF s = "" THEN "" ELSE lower_char(Head(s)) \o lower(Tail(s))

\* The operator `in` of two strings: t in s.
Contains(s, t) ==
    \E i \in 0..(Len(s) - Len(t)) : SubSeq(s, i + 1, i + Len(t)) = t

\* The first index of the character c in s, 0 when there is none.
IndexOf(s, c) ==
    IF \E i \in 1..Len(s) : Char(s, i) = c
    THEN CHOOSE i \in 1..Len(s) :
            Char(s, i) = c /\ \A j \in 1..(i - 1) : Char(s, j) # c
    ELSE 0

\* The alternatives of a pattern: its parts between the bars.
RECURSIVE Split(_, _)
Split(s, c) ==
    IF IndexOf(s, c) = 0 THEN << s >>
    ELSE << SubSeq(s, 1, IndexOf(s, c) - 1) >>
             \o Split(SubSeq(s, IndexOf(s, c) + 1, Len(s)), c)

\* The atoms of an alternative. The patterns of PHASE_MAP are made of
\* characters, classes [..], \s and the dot, each once, starred or optional.
RECURSIVE Atoms(_)
Atoms(p) ==
    IF p = "" THEN << >>
    ELSE LET c == Head(p)
             n == IF c = "[" THEN IndexOf(p, "]")
                  ELSE IF c = "\\" THEN 2 ELSE 1
             kind == IF c = "\\" THEN "space" ELSE IF c = "." THEN "dot" ELSE "set"
             chars == IF c = "[" THEN {lower_char(Char(p, i)) : i \in 2..(n - 1)}
                      ELSE {lower_char(c)}
             q == IF n < Len(p) THEN Char(p, n + 1) ELSE ""
             rep == IF q = "*" THEN "star" ELSE IF q = "?" THEN "opt" ELSE "one"
             m == IF rep = "one" THEN n ELSE n + 1
         IN << [kind |-> kind, chars |-> chars, rep |-> rep] >>
                \o Atoms(SubSeq(p, m + 1, Len(p)))

re_compile(pattern) ==
    [j \in 1..Len(Split(pattern, "|")) |-> Atoms(Split(pattern, "|")[j])]

\* One character against one atom. Under re.IGNORECASE a character of the
\* pattern and one of the string match when their lower cases are equal:
\* the atoms hold lower case, and so does the string that is searched.
AtomMatches(a, ch) ==
    CASE a.kind = "dot" -> ch # "\n"
      [] a.kind = "space" -> ch \in Whitespace
      [] OTHER -> ch \in a.chars

\* The positions of s a match can stand at after the atom, from those of P.
StepAtom(a, s, P) ==
    LET one == {q + 1 : q \in {x \in P : x < Len(s) /\ AtomMatches(a, s[x + 1])}}
    IN CASE a.rep = "one" -> one
         [] a.rep = "opt" -> P \cup one
         [] OTHER -> {q \in 0..Len(s) :
                        \E x \in P : /\ x <= q
                                     /\ \A r \in (x + 1)..q : AtomMatches(a, s[r])}

RECURSIVE RunAtoms(_, _, _, _)
RunAtoms(atoms, k, s, P) ==
    IF k > Len(atoms) THEN P
    ELSE IF P = {} THEN {}
    ELSE RunAtoms(atoms, k + 1, s, StepAtom(atoms[k], s, P))

\* The characters of a string, in lower case.
LowerChars_of(s) == [i \in 1..Len(s) |-> lower_char(Char(s, i))]

\* re.search(pattern, s, re.IGNORECASE) is not None, for the compiled
\* pattern and the characters of s in lower case.
re_search(re, s) ==
    \E j \in 1..Len(re) : RunAtoms(re[j], 1, s, 0..Len(s)) # {}

\* Variant: the rule of the final ranking stands before the general result.
PHASE_MAP_swapped ==
    << <<"edital\\s*de\\s*abertura|EDITALDE?ABERTURA", "Edital de Abertura">>,
       <<"redu[cç][aã]o.*isen[cç][aã]o|REDUCAO.ISENCAO", "Resultado Redução/Isenção de Taxa">>,
       <<"reabertura|REABERTURA", "Reabertura de Inscrições">>,
       <<"banca\\s*examinadora|BANCAEXAMINADORA", "Portaria da Banca Examinadora">>,
       <<"altera[cç][aã]o.*cronograma|ALTERACAOCRONOGRAMA", "Alteração de Cronograma">>,
       <<"altera[cç][aã]o.*comiss[aã]o|ALTERACAOCOMISSAO", "Alteração da Comissão">>,
       <<"deferimento|indeferimento|DEFERIMENTO", "Deferimento/Indeferimento de Inscrições">>,
       <<"resultado.*escrita.*conv|RESULTADOESCRITACONV|resultado.*pve", "Resultado Prova Escrita e Convocação Didática">>,
       <<"classifica[cç][aã]o\\s*final|CLASSIFICAOFINAL|CLASSIFICACAOFINAL", "Classificação Final">>,
       <<"resultado.*memorial|resultado.*prova|RESULTADO", "Resultado de Prova/Avaliação">>,
       <<"homologa[cç][aã]o|HOMOLOGA", "Homologação">>,
       <<"convoca[cç][aã]o|CONVOCAO|CONVOCACAO", "Convocação">>,
       <<"prorroga[cç][aã]o|PRORROGA", "Prorrogação de Validade">> >>

\* PHASE_MAP, lines 94-109; a label is given without its pictograph.
PHASE_MAP ==
    << <<"edital\\s*de\\s*abertura|EDITALDE?ABERTURA", "Edital de Abertura">>,
       <<"redu[cç][aã]o.*isen[cç][aã]o|REDUCAO.ISENCAO", "Resultado Redução/Isenção de Taxa">>,
       <<"reabertura|REABERTURA", "Reabertura de Inscrições">>,
       <<"banca\\s*examinadora|BANCAEXAMINADORA", "Portaria da Banca Examinadora">>,
       <<"altera[cç][aã]o.*cronograma|ALTERACAOCRONOGRAMA", "Alteração de Cronograma">>,
       <<"altera[cç][aã]o.*comiss[aã]o|ALTERACAOCOMISSAO", "Alteração da Comissão">>,
       <<"deferimento|indeferimento|DEFERIMENTO", "Deferimento/Indeferimento de Inscrições">>,
       <<"resultado.*escrita.*conv|RESULTADOESCRITACONV|resultado.*pve", "Resultado Prova Escrita e Convocação Didática">>,
       <<"resultado.*memorial|resultado.*prova|RESULTADO", "Resultado de Prova/Avaliação">>,
       <<"classifica[cç][aã]o\\s*final|CLASSIFICAOFINAL|CLASSIFICACAOFINAL", "Classificação Final">>,
       <<"homologa[cç][aã]o|HOMOLOGA", "Homologação">>,
       <<"convoca[cç][aã]o|CONVOCAO|CONVOCACAO", "Convocação">>,
       <<"prorroga[cç][aã]o|PRORROGA", "Prorrogação de Validade">> >>

PHASE_RE == [i \in 1..Len(PHASE_MAP) |-> re_compile(PHASE_MAP[i][1])]

\* classify_phase, lines 115-118: the loop over the rules from rule i on.
RECURSIVE PhaseLoop(_, _)
PhaseLoop(combined, i) ==
    IF i > Len(PHASE_MAP) THEN "Documento"
    ELSE IF re_search(PHASE_RE[i], combined) THEN PHASE_MAP[i][2]
    ELSE PhaseLoop(combined, i + 1)

\* Variant: the loop does not return at the first match, the last one stays.
RECURSIVE PhaseLoopLast(_, _, _)
PhaseLoopLast(combined, i, label) ==
    IF i > Len(PHASE_MAP) THEN label
    ELSE PhaseLoopLast(combined, i + 1,
             IF re_search(PHASE_RE[i], combined) THEN PHASE_MAP[i][2] ELSE label)

classify_phase_last(doc_name, doc_url) ==
    PhaseLoopLast(LowerChars_of(doc_name \o " " \o doc_url), 1, "Documento")

classify_phase(doc_name, doc_url) ==
    PhaseLoop(LowerChars_of(doc_name \o " " \o doc_url), 1)

\* ------------------------------------------------------- pure functions
UrlKey(url) == <<"url", url>>
DoeKey(pub_id) == <<"doe", pub_id>>

urljoin(base, href) == href.target

\* None is the record whose ok field is false.
NoSoup == [ok |-> FALSE, anchors |-> << >>]
_get_soup(html, ok) == IF ok THEN [ok |-> TRUE, anchors |-> html] ELSE NoSoup

\* discover_detail_links, lines 313-323: the body of the loop, one anchor.
\* The list holds an URL once, so `seen` is the set of its elements.
LinkStep(acc, a) ==
    IF ~a.marker THEN acc
    ELSE IF a.form = "js" THEN acc
    ELSE IF urljoin("listing", a) \in Range(acc) THEN acc
    ELSE Append(acc, urljoin("listing", a))

\* Variant: the list is returned whole.
Cap_none(links) == links

\* discover_detail_links, line 325: detail_links[:MAX_PROCESSES_PER_PAGE].
Cap(links) == Take(links, MAX_PROCESSES_PER_PAGE)

ExtOf(suffix) ==
    CASE suffix \in {"pdf", "PDF"} -> "pdf"
      [] suffix \in {"doc", "docx", "DOCX"} -> "docx"
      [] OTHER -> None

RECURSIVE CollectDocs(_, _, _)
CollectDocs(anchors, i, acc) ==
    IF i > Len(anchors) THEN acc
    ELSE LET a == anchors[i]
         IN IF ExtOf(a.suffix) = None THEN CollectDocs(anchors, i + 1, acc)
            ELSE CollectDocs(anchors, i + 1,
                     Append(acc, [url |-> a.url,
                                  name |-> IF a.text # "" THEN a.text ELSE "file",
                                  ext |-> ExtOf(a.suffix)]))

fetch_detail_page(sp) ==
    IF ~sp.ok THEN << >> ELSE CollectDocs(sp.anchors, 1, << >>)

NoContent == [ok |-> FALSE, texts |-> << >>, cells |-> << >>, error_at |-> 0]
_download(url, ok) == IF ok THEN Content(url) ELSE NoContent

\* MEU_NOME, line 34: the default of the environment variable.
MEU_NOME == "Renan Bezerra dos Santos"

\* The loops of check_name_in_pdf and check_name_in_docx from unit i on: the
\* reading of a unit raises, which the except clause turns into False, or
\* its lower-cased text holds the name, or the loop goes on.
RECURSIVE ScanUnits(_, _, _, _)
ScanUnits(units, i, error_at, name_lower) ==
    IF i > Len(units) THEN FALSE
    ELSE IF i = error_at THEN FALSE
    ELSE IF Contains(lower(units[i]), name_lower) THEN TRUE
    ELSE ScanUnits(units, i + 1, error_at, name_lower)

\* check_name_in_pdf, lines 434-445; the text of a page without text is "".
check_name_in_pdf(content, name) ==
    IF content.error_at = 0 THEN FALSE
    ELSE ScanUnits(content.texts, 1, content.error_at, lower(name))

\* Variant: the tables are not looked at.
check_name_in_docx_paragraphs(content, name) ==
    IF content.error_at = 0 THEN FALSE
    ELSE ScanUnits(content.texts, 1, content.error_at, lower(name))

\* check_name_in_docx, lines 448-464: the paragraphs, then the cells.
check_name_in_docx(content, name) ==
    IF content.error_at = 0 THEN FALSE
    ELSE ScanUnits(content.texts \o content.cells, 1, content.error_at, lower(name))

check_name_in_document(url, ext, name, ok) ==
    LET content == _download(url, ok)
    IN IF ~content.ok THEN FALSE
       ELSE IF ext = "pdf" THEN check_name_in_pdf(content, name)
       ELSE IF ext \in {"docx", "doc"} THEN check_name_in_docx(content, name)
       ELSE FALSE

\* Variants: no document is ever taken as known; the gazette id is looked up
\* without its doe: prefix, which no key lacks.
DocKnown_never(h, doc) == FALSE
DoeKnown_noprefix(h, pub_id) == FALSE

\* Variant: a document is known when its record says that the name was found.
DocKnown_found(h, doc) ==
    UrlKey(doc.url) \in DOMAIN h /\ h[UrlKey(doc.url)].found_name

\* Variant: a document is taken as known by its display name.
DocKnown_byname(h, doc) ==
    \E k \in DOMAIN h : h[k].source = "CPS" /\ h[k].name = doc.name

\* process_detail_page, line 547, and search_doe_sp, line 183.
DocKnown(h, doc) == UrlKey(doc.url) \in DOMAIN h
DoeKnown(h, pub_id) == DoeKey(pub_id) \in DOMAIN h

\* Variant: the two messages are exchanged.
MsgKind_swapped(fnd) == IF fnd THEN "not_found" ELSE "found"

\* process_detail_page, lines 566-573: which message is built.
MsgKind(fnd) == IF fnd THEN "found" ELSE "not_found"

DocRecord(doc, detail_url, fnd) ==
    [source |-> "CPS", name |-> doc.name, detail_page |-> detail_url,
     found_name |-> fnd]

\* Variant: the record of a gazette item says that the name was not found.
DoeRecord_notfound(pub_id) ==
    [source |-> "DOE-SP", title |-> "DOE", detail_page |-> 0, found_name |-> FALSE]

\* search_doe_sp, lines 198-206.
DoeRecord(pub_id) ==
    [source |-> "DOE-SP", title |-> "DOE", detail_page |-> 0, found_name |-> TRUE]

\* ------------------------------------------------------------ the sweep
NoSend == [key |-> <<"none", 0>>, kind |-> "none", ok |-> TRUE]

\* Before the first sweep: no history file, nothing sent, nothing fetched.
ColdStart ==
    /\ sweep = 1
    /\ disk = EmptyMap
    /\ history = EmptyMap
    /\ total_new = 0
    /\ detail_links = << >>
    /\ di = 0
    /\ old_count = 0
    /\ docs = << >>
    /\ dj = 0
    /\ found = FALSE
    /\ page = 0
    /\ new_count = 0
    /\ items = << >>
    /\ hasNext = FALSE
    /\ ii = 0
    /\ notif = EmptyMap
    /\ downloads = EmptyMap
    /\ sent = 0
    /\ lastSend = NoSend
    /\ visited = {}
    /\ failed = {}
    /\ requests = 0
    /\ evaluated = 0
    /\ loaded = EmptyMap
    /\ prevClean = FALSE
    /\ sameUpstream = FALSE
    /\ calls = << >>

\* A process that runs main calls no function on its own.
NoCall ==
    /\ arg = None
    /\ ret = None

\* LISTING_PAGES, lines 58-84: the list of the listing sources, of which
\* NumListings are modelled.
Configured == LISTING_PAGES = [l \in 1..NumListings |-> l]

Init ==
    /\ upstream \in Scenarios
    /\ pc = "idle"
    /\ soup = NoSoup
    /\ ColdStart
    /\ NoCall
    /\ Configured
    /\ li = 0
    /\ ai = 0

\* Variant: the file is never read.
load_history_empty == EmptyMap

\* The failed fetches of listing pages <<l, 0>>, of detail pages <<l, d>> and
\* of gazette pages <<0, p>>; a failed download is <<-1, url>>.
PageFailures == {f \in failed : f[1] >= 0}

\* load_history: the dict of the file, {} when the file is absent.
load_history == disk

\* send_whatsapp(msg): one call, which delivers the message (status 200) or
\* does not (credentials not set, another status, a failed request);
\* nothing is raised and nothing but the log depends on the outcome.
send_whatsapp(key, kind, ok) ==
    /\ Count(notif, key) < MaxNotif
    /\ notif' = Bump(notif, key)
    /\ sent' = sent + 1
    /\ lastSend' = [key |-> key, kind |-> kind, ok |-> ok]

\* main, lines 585-586.
LoadHistory ==
    /\ pc = "idle"
    /\ history' = load_history
    /\ loaded' = load_history
    /\ total_new' = 0
    /\ li' = 1
    /\ pc' = "listing"
    /\ calls' = Append(calls, <<"load_history", 0, 0>>)
    /\ UNCHANGED <<envVars, disk, soup, ai, detail_links, di, old_count,
                   docVars, doeVars, sendVars, downloads, visited, failed,
                   doeObs>>

\* Variant: break instead of continue.
AfterEmptyListing_break(l) == Len(LISTING_PAGES) + 1

\* main, line 600: the listing after one that gave no detail link.
AfterEmptyListing(l) == l + 1

\* main, lines 588-597 and discover_detail_links, line 305: the listing
\* page is fetched.
FetchListing ==
    /\ pc = "listing"
    /\ li <= Len(LISTING_PAGES)
    /\ \E ok \in BOOLEAN :
         /\ soup' = _get_soup(ListingPage(upstream, LISTING_PAGES[li]), ok)
         /\ failed' = IF ok THEN failed ELSE failed \cup {<<li, 0>>}
    /\ visited' = visited \cup {<<li, 0>>}
    /\ detail_links' = << >>
    /\ ai' = 1
    /\ pc' = "links"
    /\ calls' = Append(calls, <<"discover_detail_links", li, 0>>)
    /\ UNCHANGED <<envVars, disk, history, total_new, li, di, old_count,
                   docVars, doeVars, sendVars, downloads, doeObs, loaded>>

\* discover_detail_links, lines 306-307, and main, lines 598-600: without a
\* page the result is [] and main goes on with the next listing.
LinkFail ==
    /\ pc = "links"
    /\ ~soup.ok
    /\ detail_links' = << >>
    /\ li' = AfterEmptyListing(li)
    /\ ai' = 0
    /\ pc' = "listing"
    /\ UNCHANGED <<calls, envVars, disk, history, total_new, soup, di,
                   old_count, docVars, doeVars, sendVars, downloads, visited,
                   failed, doeObs, loaded>>

\* discover_detail_links, lines 312-323: one anchor of the page.
LinkLoop ==
    /\ pc = "links"
    /\ soup.ok
    /\ ai <= Len(soup.anchors)
    /\ detail_links' = LinkStep(detail_links, soup.anchors[ai])
    /\ ai' = ai + 1
    /\ UNCHANGED <<calls, envVars, disk, history, total_new, li, soup, di,
                   old_count, docVars, doeVars, sendVars, downloads, visited,
                   failed, doeObs, loaded, pc>>

\* discover_detail_links, line 325, and main, lines 597-602: the list is cut
\* and returned; main passes over a listing without links.
LinkReturn ==
    /\ pc = "links"
    /\ soup.ok
    /\ ai > Len(soup.anchors)
    /\ detail_links' = Cap(detail_links)
    /\ ai' = 0
    /\ IF Cap(detail_links) = << >>
       THEN /\ li' = AfterEmptyListing(li)
            /\ pc' = "listing"
            /\ di' = di
       ELSE /\ li' = li
            /\ pc' = "detail"
            /\ di' = 1
    /\ UNCHANGED <<calls, envVars, disk, history, total_new, soup, old_count,
                   docVars, doeVars, sendVars, downloads, visited, failed,
                   doeObs, loaded>>

\* main, line 604: the detail links of the listing are exhausted.
EndListing ==
    /\ pc = "detail"
    /\ di > Len(detail_links)
    /\ li' = li + 1
    /\ detail_links' = << >>
    /\ di' = 0
    /\ pc' = "listing"
    /\ UNCHANGED <<calls, envVars, disk, history, total_new, soup, ai,
                   old_count, docVars, doeVars, sendVars, downloads, visited,
                   failed, doeObs, loaded>>

\* main, lines 604-608 and process_detail_page, lines 534-536: the detail
\* page is fetched; with no document the call returns at once.
FetchDetail ==
    /\ pc = "detail"
    /\ di <= Len(detail_links)
    /\ \E ok \in BOOLEAN :
         LET detail_url == detail_links[di]
             ds == fetch_detail_page(_get_soup(DetailPage(upstream, detail_url), ok))
         IN /\ visited' = visited \cup {<<li, detail_url>>}
            /\ calls' = Append(calls, <<"process_detail_page", li, detail_url>>)
            /\ failed' = IF ok THEN failed ELSE failed \cup {<<li, detail_url>>}
            /\ IF ds = << >>
               THEN /\ di' = di + 1
                    /\ UNCHANGED <<old_count, docs, dj, pc>>
               ELSE /\ old_count' = Cardinality(DOMAIN history)
                    /\ docs' = ds
                    /\ dj' = 1
                    /\ pc' = "doc"
                    /\ di' = di
    /\ UNCHANGED <<envVars, disk, history, total_new, listVars, found,
                   doeVars, sendVars, downloads, doeObs, loaded>>

\* process_detail_page, lines 547-548: a document whose URL is a key.
SkipKnownDoc ==
    /\ pc = "doc"
    /\ dj <= Len(docs)
    /\ DocKnown(history, docs[dj])
    /\ dj' = dj + 1
    /\ UNCHANGED <<calls, envVars, disk, history, total_new, listVars, di,
                   old_count, docs, found, doeVars, sendVars, downloads,
                   visited, failed, doeObs, loaded, pc>>

\* process_detail_page, lines 550-564: download, match and record.
NewDoc ==
    /\ pc = "doc"
    /\ dj <= Len(docs)
    /\ ~DocKnown(history, docs[dj])
    /\ \E ok \in BOOLEAN :
         LET doc == docs[dj]
             fnd == check_name_in_document(doc.url, doc.ext, MEU_NOME, ok)
         IN /\ found' = fnd
            /\ history' = Put(history, UrlKey(doc.url),
                              DocRecord(doc, detail_links[di], fnd))
            /\ downloads' = Bump(downloads, UrlKey(doc.url))
            /\ failed' = IF ok THEN failed ELSE failed \cup {<<-1, doc.url>>}
    /\ pc' = "doc_notify"
    /\ UNCHANGED <<calls, envVars, disk, total_new, listVars, di, old_count,
                   docs, dj, doeVars, sendVars, visited, doeObs, loaded>>

\* process_detail_page, lines 566-575: the message of the outcome is sent.
NotifyDoc ==
    /\ pc = "doc_notify"
    /\ \E ok \in BOOLEAN :
         send_whatsapp(UrlKey(docs[dj].url), MsgKind(found), ok)
    /\ dj' = dj + 1
    /\ found' = FALSE
    /\ pc' = "doc"
    /\ UNCHANGED <<calls, envVars, disk, history, total_new, listVars, di,
                   old_count, docs, doeVars, downloads, visited, failed,
                   doeObs, loaded>>

\* Variant: the length of the history is added as it is.
NewOnPage_length(h, old) == Cardinality(DOMAIN h)

\* main, line 608: len(history) - old_count.
NewOnPage(h, old) == Cardinality(DOMAIN h) - old

\* process_detail_page, line 577 and main, line 608.
ReturnDetail ==
    /\ pc = "doc"
    /\ dj > Len(docs)
    /\ total_new' = total_new + NewOnPage(history, old_count)
    /\ di' = di + 1
    /\ docs' = << >>
    /\ dj' = 0
    /\ old_count' = 0
    /\ pc' = "detail"
    /\ UNCHANGED <<calls, envVars, disk, history, listVars, found, doeVars,
                   sendVars, downloads, visited, failed, doeObs, loaded>>

\* main, lines 610-616 and search_doe_sp, lines 148-149: after the last
\* listing the gazette search starts at page 1.
StartDoe ==
    /\ pc = "listing"
    /\ li > Len(LISTING_PAGES)
    /\ new_count' = 0
    /\ page' = 1
    /\ requests' = 0
    /\ evaluated' = 0
    /\ soup' = NoSoup
    /\ pc' = "doe_request"
    /\ calls' = Append(calls, <<"search_doe_sp", 0, 0>>)
    /\ UNCHANGED <<envVars, disk, history, total_new, li, ai, detail_links, di,
                   old_count, docVars, items, hasNext, ii, sendVars, downloads,
                   visited, failed, loaded>>

\* Variant: the default of the lookup is True.
HasNextPage_default_true(data) == data.hasNextPage # "false"

\* search_doe_sp, line 229: data.get("hasNextPage", False).
HasNextPage(data) == data.hasNextPage = "true"

\* Variant: the exception leaves search_doe_sp and ends the process.
AfterDoeError_raise == "crashed"

\* search_doe_sp, lines 171-173: the position after a failed request.
AfterDoeError == "doe_return"

\* search_doe_sp, lines 152-177: one request; a failure or a page without
\* items ends the loop.
DoeRequest ==
    /\ pc = "doe_request"
    /\ \E ok \in BOOLEAN :
         LET data == DoeResponse(upstream, page)
         IN /\ requests' = requests + 1
            /\ failed' = IF ok THEN failed ELSE failed \cup {<<0, page>>}
            /\ IF ~ok
               THEN /\ pc' = AfterDoeError
                    /\ UNCHANGED <<items, hasNext, ii>>
               ELSE IF data.items = << >>
               THEN /\ pc' = "doe_return"
                    /\ UNCHANGED <<items, hasNext, ii>>
               ELSE /\ items' = data.items
                    /\ hasNext' = HasNextPage(data)
                    /\ ii' = 1
                    /\ pc' = "doe_item"
    /\ UNCHANGED <<calls, envVars, disk, history, total_new, listVars, di,
                   old_count, docVars, page, new_count, sendVars, downloads,
                   visited, evaluated, loaded>>

\* search_doe_sp, lines 179-184: an item whose key is in the history.
DoeSkipKnown ==
    /\ pc = "doe_item"
    /\ ii <= Len(items)
    /\ DoeKnown(history, items[ii])
    /\ ii' = ii + 1
    /\ evaluated' = evaluated + 1
    /\ UNCHANGED <<calls, envVars, disk, history, total_new, listVars, di,
                   old_count, docVars, page, new_count, items, hasNext,
                   sendVars, downloads, visited, failed, requests, loaded, pc>>

\* search_doe_sp, lines 186-207: a new item is recorded and counted.
DoeNew ==
    /\ pc = "doe_item"
    /\ ii <= Len(items)
    /\ ~DoeKnown(history, items[ii])
    /\ history' = Put(history, DoeKey(items[ii]), DoeRecord(items[ii]))
    /\ new_count' = new_count + 1
    /\ evaluated' = evaluated + 1
    /\ pc' = "doe_notify"
    /\ UNCHANGED <<calls, envVars, disk, total_new, listVars, di, old_count,
                   docVars, page, items, hasNext, ii, sendVars, downloads,
                   visited, failed, requests, loaded>>

\* search_doe_sp, lines 209-226: the gazette message is sent.
NotifyDoe ==
    /\ pc = "doe_notify"
    /\ \E ok \in BOOLEAN : send_whatsapp(DoeKey(items[ii]), "doe", ok)
    /\ ii' = ii + 1
    /\ pc' = "doe_item"
    /\ UNCHANGED <<calls, envVars, disk, history, total_new, listVars, di,
                   old_count, docVars, page, new_count, items, hasNext,
                   downloads, visited, failed, doeObs, loaded>>

\* Variant: the loop ends after every page.
AfterDoePage_stop(nxt) == "doe_return"

\* search_doe_sp, lines 228-231: the position after the items of a page.
AfterDoePage(nxt) == IF ~nxt THEN "doe_return" ELSE "doe_request"

DoeNextPage ==
    /\ pc = "doe_item"
    /\ ii > Len(items)
    /\ pc' = AfterDoePage(hasNext)
    /\ page' = IF AfterDoePage(hasNext) = "doe_request" THEN page + 1 ELSE page
    /\ items' = << >>
    /\ hasNext' = FALSE
    /\ ii' = 0
    /\ UNCHANGED <<calls, envVars, disk, history, total_new, listVars, di,
                   old_count, docVars, new_count, sendVars, downloads, visited,
                   failed, doeObs, loaded>>

\* Variant: main ends after the search.
AfterSearch_end == "done"

\* main, lines 616-624: the position after the gazette search.
AfterSearch == "save"

\* search_doe_sp, line 233 and main, lines 616-617.
DoeReturn ==
    /\ pc = "doe_return"
    /\ total_new' = total_new + new_count
    /\ pc' = AfterSearch
    /\ UNCHANGED <<calls, envVars, disk, history, listVars, di, old_count,
                   docVars, doeVars, sendVars, downloads, visited, failed,
                   doeObs, loaded>>

\* Variant: the file is left as it is.
save_history_skipped(h) == disk' = disk

\* Variant: the key of a message that was not delivered is left out of the
\* file, so that the next sweep takes the item as new.
save_history_delivered(h) ==
    disk' = IF lastSend.ok THEN h
            ELSE [k \in DOMAIN h \ {lastSend.key} |-> h[k]]

\* save_history: the file is overwritten with the dict.
save_history(h) == disk' = h

\* main, line 624.
SaveHistory ==
    /\ pc = "save"
    /\ save_history(history)
    /\ pc' = "done"
    /\ calls' = Append(calls, <<"save_history", 0, 0>>)
    /\ UNCHANGED <<envVars, history, total_new, listVars, di, old_count,
                   docVars, doeVars, sendVars, downloads, visited, failed,
                   doeObs, loaded>>

\* The process ends; the next scheduled sweep is a new process, run against
\* the same upstream content or against the content after a publication.
NextSweep ==
    /\ pc = "done"
    /\ sweep < MaxSweeps
    /\ \E u \in NextUpstream(upstream) :
         /\ upstream' = u
         /\ sameUpstream' = (u = upstream)
    /\ prevClean' = (PageFailures = {})
    /\ sweep' = sweep + 1
    /\ pc' = "idle"
    /\ history' = EmptyMap
    /\ loaded' = EmptyMap
    /\ total_new' = 0
    /\ li' = 0
    /\ page' = 0
    /\ new_count' = 0
    /\ sent' = 0
    /\ lastSend' = NoSend
    /\ visited' = {}
    /\ failed' = {}
    /\ requests' = 0
    /\ evaluated' = 0
    /\ calls' = << >>
    /\ UNCHANGED <<disk, soup, ai, detail_links, di, old_count, docVars,
                   items, hasNext, ii, notif, downloads, LISTING_PAGES,
                   callVars>>

SweepStep ==
    \/ LoadHistory
    \/ FetchListing
    \/ LinkFail
    \/ LinkLoop
    \/ LinkReturn
    \/ EndListing
    \/ FetchDetail
    \/ SkipKnownDoc
    \/ NewDoc
    \/ NotifyDoc
    \/ ReturnDetail
    \/ StartDoe
    \/ DoeRequest
    \/ DoeSkipKnown
    \/ DoeNew
    \/ NotifyDoe
    \/ DoeNextPage
    \/ DoeReturn
    \/ SaveHistory

Next == SweepStep \/ NextSweep

Spec == Init /\ [][Next]_vars

\* Every call of the sweep returns (each network call has a timeout), so a
\* sweep that can take a step takes it.
FairSpec == Spec /\ WF_vars(SweepStep)

\* ------------------------------------- discover_detail_links on its own
\* The listing pages given to discover_detail_links: every page of at most
\* MaxAnchors anchors over a small set of anchors, and long pages of distinct
\* matching anchors, each once or each twice (a relative and an absolute
\* href of the same detail page).
AnchorSet ==
    {Href(f, m, t) : f \in {"rel", "abs", "js"}, m \in BOOLEAN, t \in 1..2}
SmallPages == UNION {[1..n -> AnchorSet] : n \in 0..MaxAnchors}
LongPage(n) == [i \in 1..n |-> Href("rel", TRUE, i)]
DoubledPage(n) ==
    [i \in 1..(2 * n) |-> IF i % 2 = 1 THEN Href("rel", TRUE, (i + 1) \div 2)
                                        ELSE Href("abs", TRUE, i \div 2)]
LongPages ==
    {LongPage(n) : n \in {49, 50, 51, 80}} \cup {DoubledPage(n) : n \in {50, 80}}
SoupInputs ==
    {_get_soup(html, ok) : html \in SmallPages \cup LongPages, ok \in BOOLEAN}

InitLinks ==
    /\ upstream = 1
    /\ pc = "links"
    /\ soup \in SoupInputs
    /\ ColdStart
    /\ NoCall
    /\ Configured
    /\ li = 1
    /\ ai = 1

NextLinks == LinkFail \/ LinkLoop \/ LinkReturn

SpecLinks == InitLinks /\ [][NextLinks]_vars

\* ------------------------------------------- main without listing sources
\* The sweeps of a process whose LISTING_PAGES is the empty list: the loop
\* over the listings has no iteration.
InitNoSources ==
    /\ upstream \in Scenarios
    /\ pc = "idle"
    /\ soup = NoSoup
    /\ ColdStart
    /\ NoCall
    /\ LISTING_PAGES = << >>
    /\ li = 0
    /\ ai = 0

NextNoSources ==
    \/ LoadHistory
    \/ StartDoe
    \/ DoeRequest
    \/ DoeSkipKnown
    \/ DoeNew
    \/ NotifyDoe
    \/ DoeNextPage
    \/ DoeReturn
    \/ SaveHistory
    \/ NextSweep

SpecNoSources == InitNoSources /\ [][NextNoSources]_vars

\* ------------------------------------------------ classify_phase on its own
\* The names given to classify_phase: up to MaxWords phrases joined by
\* blanks, and names of documents as the portal writes them; the URLs: one
\* that matches no rule and two whose file name matches one.
PhasePhrases ==
    {"edital de abertura", "EDITALDEABERTURA", "Resultado", "resultado da prova",
     "Classificação Final", "classificacao  final", "Homologação",
     "convocação", "deferimento", "retificação", "2026"}
RECURSIVE Joined(_)
Joined(n) ==
    IF n = 0 THEN {""}
    ELSE IF n = 1 THEN PhasePhrases
    ELSE {a \o " " \o b : a \in Joined(n - 1), b \in PhasePhrases}
PhaseNames ==
    UNION {Joined(n) : n \in 0..MaxWords}
        \cup {"Resultado - Classificação Final 2026", "edital de abertura 2026",
              "Edital   de\tAbertura - Reabertura", "Redução e Isenção de Taxa",
              "Portaria Banca Examinadora", "Alteração do Cronograma",
              "ALTERAÇÃO DA COMISSÃO", "Resultado da Prova Escrita e Convocação",
              "Resultado do Memorial", "Prorrogação de Validade", "Anexo II"}
PhaseUrls ==
    {"https://cps/dgsdad/docs/4411.pdf",
     "https://cps/dgsdad/docs/EDITALDABERTURA.pdf",
     "https://cps/dgsdad/docs/CLASSIFICAOFINAL.docx?v=2"}

InitPhase ==
    /\ upstream = 1
    /\ pc = "call"
    /\ soup = NoSoup
    /\ ColdStart
    /\ li = 0
    /\ ai = 0
    /\ Configured
    /\ arg \in [name : PhaseNames, url : PhaseUrls]
    /\ ret = None

\* One call classify_phase(name, url).
ClassifyPhase ==
    /\ pc = "call"
    /\ ret' = classify_phase(arg.name, arg.url)
    /\ pc' = "return"
    /\ UNCHANGED <<calls, upstream, sweep, prevClean, sameUpstream,
                   LISTING_PAGES, arg, disk, history, total_new, listVars, di,
                   old_count, docVars, doeVars, sendVars, downloads, visited,
                   failed, doeObs, loaded>>

NextPhase == ClassifyPhase

SpecPhase == InitPhase /\ [][NextPhase]_vars

\* ------------------------- check_name_in_pdf and check_name_in_docx alone
\* The documents given to the two functions: up to MaxUnits texts (pages or
\* paragraphs) and, in a word-processor document, up to MaxUnits cells, each
\* empty, holding the name in another case, or holding a part of it only;
\* the reading raises at the opening, at one of the units, or nowhere.
UnitTexts == {"", "1. RENAN BEZERRA DOS SANTOS", "Renan Bezerra"}
UnitSeqs == UNION {[1..n -> UnitTexts] : n \in 0..MaxUnits}
Documents(cellSeqs) ==
    UNION {{Document(t, c, e) : e \in (-1)..(Len(t) + Len(c))} :
           t \in UnitSeqs, c \in cellSeqs}
MatchInputs ==
    {[ext |-> "pdf", content |-> d, name |-> MEU_NOME] : d \in Documents({<< >>})}
        \cup {[ext |-> "docx", content |-> d, name |-> MEU_NOME] :
                d \in Documents(UnitSeqs)}

InitMatch ==
    /\ upstream = 1
    /\ pc = "call"
    /\ soup = NoSoup
    /\ ColdStart
    /\ li = 0
    /\ ai = 0
    /\ Configured
    /\ arg \in MatchInputs
    /\ ret = FALSE

\* One call check_name_in_pdf(content, name).
CheckPdf ==
    /\ pc = "call"
    /\ arg.ext = "pdf"
    /\ ret' = check_name_in_pdf(arg.content, arg.name)
    /\ pc' = "return"
    /\ UNCHANGED <<calls, upstream, sweep, prevClean, sameUpstream,
                   LISTING_PAGES, arg, disk, history, total_new, listVars, di,
                   old_count, docVars, doeVars, sendVars, downloads, visited,
                   failed, doeObs, loaded>>

\* One call check_name_in_docx(content, name).
CheckDocx ==
    /\ pc = "call"
    /\ arg.ext = "docx"
    /\ ret' = check_name_in_docx(arg.content, arg.name)
    /\ pc' = "return"
    /\ UNCHANGED <<calls, upstream, sweep, prevClean, sameUpstream,
                   LISTING_PAGES, arg, disk, history, total_new, listVars, di,
                   old_count, docVars, doeVars, sendVars, downloads, visited,
                   failed, doeObs, loaded>>

NextMatch == CheckPdf \/ CheckDocx

SpecMatch == InitMatch /\ [][NextMatch]_vars

\* ------------------------------------------------------------ the claims
SentTo(k) == Count(notif, k)
Downloaded(k) == Count(downloads, k)
AllKeys == DOMAIN history \cup DOMAIN disk \cup DOMAIN notif \cup DOMAIN downloads

\* C1: idempotence across sweeps. In a sweep run against the upstream content
\* of the sweep before it, no notification is sent for a key of the loaded
\* history; and when no fetch of the sweep before failed, the sweep sends no
\* notification at all, adds no key, and saves the history it loaded.
Idempotence ==
    (sweep > 1 /\ sameUpstream) =>
        /\ lastSend.key \notin DOMAIN loaded
        /\ prevClean =>
              /\ sent = 0
              /\ history = loaded
              /\ pc = "done" => disk = loaded

IdempotenceWitness ==
    /\ sweep = 2 /\ sameUpstream /\ prevClean /\ pc = "done"
    /\ Cardinality(DOMAIN loaded) >= 5
    /\ visited # {} /\ requests >= 2

\* C2: at most one notification and one download per key over all sweeps,
\* and none at all for a key of the saved history.
AtMostOnePerKey ==
    /\ [](\A k \in AllKeys : SentTo(k) <= 1 /\ Downloaded(k) <= 1)
    /\ [][\A k \in DOMAIN disk :
             /\ Count(notif', k) = SentTo(k)
             /\ Count(downloads', k) = Downloaded(k)]_vars

AtMostOnePerKeyWitness ==
    /\ sweep = 2 /\ pc = "done"
    /\ \E k \in DOMAIN loaded : k[1] = "url" /\ SentTo(k) = 1
    /\ \E k \in DOMAIN loaded : k[1] = "doe" /\ SentTo(k) = 1
    /\ \E k \in DOMAIN disk \ DOMAIN loaded : SentTo(k) = 1

\* C3: the decision of process_detail_page for one document. A document whose
\* URL is a key is passed over: no download, no write, no notification. A new
\* one is downloaded once and recorded under its URL with found_name the
\* outcome of the match, and then one message is sent: the 'found' message
\* when found_name is true, the 'not found' message when it is false.
NameInDocument(doc) ==
    LET c == Content(doc.url)
        InText(t) == Contains(lower(t), lower(MEU_NOME))
    IN /\ c.error_at = -1
       /\ \/ \E i \in 1..Len(c.texts) : InText(c.texts[i])
          \/ doc.ext = "docx" /\ \E i \in 1..Len(c.cells) : InText(c.cells[i])

DocDecision ==
    /\ [][(pc = "doc" /\ dj <= Len(docs)) =>
            LET k == UrlKey(docs[dj].url)
            IN IF k \in DOMAIN history
               THEN /\ UNCHANGED <<history, notif, downloads, sent>>
                    /\ pc' = "doc" /\ dj' = dj + 1
               ELSE /\ Count(downloads', k) = Downloaded(k) + 1
                    /\ DOMAIN history' = DOMAIN history \cup {k}
                    /\ \A x \in DOMAIN history : history'[x] = history[x]
                    /\ history'[k].found_name = found'
                    /\ found' = (/\ <<-1, docs[dj].url>> \notin failed'
                                  /\ NameInDocument(docs[dj]))
                    /\ UNCHANGED <<notif, sent>>
                    /\ pc' = "doc_notify" /\ dj' = dj]_vars
    /\ [][pc = "doc_notify" =>
            LET k == UrlKey(docs[dj].url)
            IN /\ sent' = sent + 1
               /\ Count(notif', k) = SentTo(k) + 1
               /\ \A x \in AllKeys \ {k} : Count(notif', x) = SentTo(x)
               /\ lastSend'.key = k
               /\ lastSend'.kind =
                    (IF history[k].found_name THEN "found" ELSE "not_found")
               /\ UNCHANGED <<history, downloads>>
               /\ pc' = "doc" /\ dj' = dj + 1]_vars

DocDecisionWitness ==
    /\ pc = "doc" /\ dj > Len(docs) /\ Len(docs) >= 3
    /\ history[UrlKey(docs[1].url)].found_name
    /\ ~history[UrlKey(docs[3].url)].found_name
    /\ lastSend.kind = "not_found"
    /\ SentTo(UrlKey(docs[1].url)) = 1

\* C4: the history is insert-only. No step of a sweep removes or changes an
\* entry of the dict, the dict holds the loaded history unchanged, and the
\* saved file only grows.
InsertOnly ==
    /\ [][pc # "done" => Extends(history, history')]_vars
    /\ [][Extends(disk, disk')]_vars
    /\ [](pc # "idle" => Extends(loaded, history))
    /\ [](pc = "done" => Extends(loaded, disk))

InsertOnlyWitness ==
    /\ sweep = 2 /\ pc = "done"
    /\ loaded # EmptyMap
    /\ DOMAIN disk # DOMAIN loaded

LinksOf(l) ==
    {a.target : a \in {x \in Range(ListingPage(upstream, l)) :
                          x.marker /\ x.form # "js"}}
AfterCrawl == {"doe_request", "doe_item", "doe_notify", "doe_return", "save", "done"}

PartialFailureTolerance ==
    /\ [][\A f \in failed' \ failed :
            f[1] >= 1 =>
               /\ UNCHANGED <<history, notif, sent, total_new>>
               /\ IF f[2] = 0
                  THEN li' = li /\ pc' = "links" /\ ~soup'.ok
                  ELSE li' = li /\ di' = di + 1 /\ pc' = "detail"]_vars
    /\ [][(pc = "links" /\ ~soup.ok) =>
            /\ UNCHANGED <<history, notif, sent, total_new>>
            /\ li' = li + 1 /\ pc' = "listing"]_vars
    /\ [](pc \in AfterCrawl =>
            \A l \in 1..NumListings :
               /\ <<l, 0>> \in visited
               /\ <<l, 0>> \notin failed =>
                     \A d \in LinksOf(l) : <<l, d>> \in visited)
    /\ [](pc = "done" => requests >= 1 /\ disk = history)

PartialFailureWitness ==
    /\ pc = "done"
    /\ <<1, 0>> \in failed
    /\ <<2, 2>> \in visited \ failed
    /\ UrlKey(2) \in DOMAIN disk \ DOMAIN loaded

\* C7: the gazette pages are requested in order 1, 2, 3, ...; no request
\* follows a failed request, a page without items or a page whose hasNextPage
\* is false or absent; 3 pages of 20 items with hasNextPage false on the
\* third give 3 requests and 60 evaluated items.
DoeFailed == \E f \in failed : f[1] = 0

PaginationTerminates ==
    /\ pc = "doe_request" => requests = page - 1
    /\ pc \in {"doe_item", "doe_notify"} => requests = page
    /\ pc \in AfterCrawl =>
          \A p \in 1..(requests - 1) :
             /\ <<0, p>> \notin failed
             /\ DoeResponse(upstream, p).items # << >>
             /\ DoeResponse(upstream, p).hasNextPage = "true"
    /\ (pc \in {"doe_return", "save", "done"} /\ upstream = 3 /\ ~DoeFailed) =>
          requests = 3 /\ evaluated = 60

PaginationTerminatesWitness ==
    /\ pc = "done" /\ upstream = 3 /\ requests = 3 /\ evaluated = 60
    /\ Len(DoeApi(upstream)) = 3
    /\ \A p \in 1..3 : Len(DoeApi(upstream)[p].items) = 20

\* C8 as stated: after a page whose items were all known when the sweep
\* started, no further page is requested.
PageKnown == \A i \in 1..Len(items) : DoeKey(items[i]) \in DOMAIN loaded

StopsWhenAllKnown ==
    [][(pc = "doe_item" /\ ii > Len(items) /\ PageKnown) =>
          pc' # "doe_request"]_vars

\* C8 as amended: a known item adds no entry, no count and no notification,
\* and known items do not end the search: after the items of a page the
\* next page is requested exactly when the page reported hasNextPage true.
KnownItemsDoNotStop ==
    /\ [][(pc = "doe_item" /\ ii <= Len(items)
             /\ DoeKey(items[ii]) \in DOMAIN history) =>
            /\ UNCHANGED <<history, new_count, notif, sent>>
            /\ ii' = ii + 1 /\ pc' = "doe_item"]_vars
    /\ [][(pc = "doe_item" /\ ii > Len(items)) =>
            IF hasNext
            THEN pc' = "doe_request" /\ page' = page + 1
            ELSE pc' = "doe_return"]_vars

KnownItemsDoNotStopWitness ==
    /\ sweep = 2 /\ pc = "doe_request" /\ page = 2 /\ requests = 1
    /\ new_count = 0
    /\ \A i \in 1..Len(DoeResponse(upstream, 1).items) :
          DoeKey(DoeResponse(upstream, 1).items[i]) \in DOMAIN loaded

\* C9: a failed gazette request ends the search without ending the sweep:
\* the call returns, no further request is made, and the dict and the count
\* hold every entry of the pages before the failed one.
DoeKeysNew == {k \in DOMAIN history \ DOMAIN loaded : k[1] = "doe"}

GazetteFailureKeepsProgress ==
    /\ [][\A f \in failed' \ failed :
            f[1] = 0 =>
               /\ pc' = "doe_return"
               /\ f[2] = page
               /\ UNCHANGED <<history, new_count, page, notif, sent>>]_vars
    /\ []((pc \in {"doe_return", "save", "done"} /\ DoeFailed) =>
            /\ requests = page
            /\ <<0, page>> \in failed
            /\ \A p \in 1..(page - 1) :
                  \A i \in 1..Len(DoeResponse(upstream, p).items) :
                     DoeKey(DoeResponse(upstream, p).items[i]) \in DOMAIN history
            /\ new_count = Cardinality(DoeKeysNew)
            /\ pc = "done" => disk = history)

GazetteFailureWitness ==
    /\ pc = "done" /\ <<0, 2>> \in failed
    /\ new_count = 2
    /\ DoeKey(1) \in DOMAIN disk \ DOMAIN loaded

\* C10: the result of discover_detail_links is the list of the distinct
\* resolved URLs of the anchors that hold the marker and are no javascript:
\* links, in the order of their first occurrence, cut to its first
\* MAX_PROCESSES_PER_PAGE (50) elements: at most 50 long, without duplicates,
\* the first 50 detail pages for a page of 80; empty when the fetch failed.
MatchingIdx(anchors) ==
    {i \in 1..Len(anchors) : anchors[i].marker /\ anchors[i].form # "js"}
FirstSeen(anchors) ==
    LET m == MatchingIdx(anchors)
    IN [u \in {anchors[i].target : i \in m} |->
           CHOOSE i \in m : /\ anchors[i].target = u
                            /\ \A j \in m : j < i => anchors[j].target # u]

CapEnforced ==
    pc \in {"listing", "detail"} =>
        IF ~soup.ok THEN detail_links = << >>
        ELSE LET first == FirstSeen(soup.anchors)
                 urls == DOMAIN first
                 n == Len(detail_links)
             IN /\ n <= 50
                /\ n = IF Cardinality(urls) <= 50 THEN Cardinality(urls) ELSE 50
                /\ \A i \in 1..n : detail_links[i] \in urls
                /\ \A i \in 1..(n - 1) :
                      first[detail_links[i]] < first[detail_links[i + 1]]
                /\ \A u \in urls \ Range(detail_links) :
                      \A i \in 1..n : first[detail_links[i]] < first[u]
                /\ soup.anchors \in {LongPage(80), DoubledPage(80)} =>
                      detail_links = [i \in 1..50 |-> i]

CapEnforcedWitness ==
    /\ pc = "detail" /\ soup.ok
    /\ Cardinality(MatchingIdx(soup.anchors)) = 80
    /\ Cardinality({soup.anchors[i].target : i \in 1..Len(soup.anchors)}) = 80
    /\ Len(detail_links) = 50
    /\ detail_links[1] = 1 /\ detail_links[50] = 50

\* C11: the key of a crawled document is its resolved URL. Every key of the
\* history stands for one download and one notification, however often its
\* URL was met; and after the crawl the URL keys of the history are those of
\* the loaded history and one for every distinct URL of a document of a
\* detail page that was fetched, also for documents of the same display name.
Pending ==
    IF pc = "doc_notify" THEN {UrlKey(docs[dj].url)}
    ELSE IF pc = "doe_notify" THEN {DoeKey(items[ii])}
    ELSE {}
UrlKeys(h) == {k \in DOMAIN h : k[1] = "url"}
FetchedDetails == {f \in visited \ failed : f[1] >= 1 /\ f[2] >= 1}
DocsMet ==
    UNION {{d.url : d \in Range(fetch_detail_page(
                      _get_soup(DetailPage(upstream, f[2]), TRUE)))} :
           f \in FetchedDetails}

DedupKeyUniqueness ==
    /\ \A k \in DOMAIN history \ Pending : SentTo(k) = 1
    /\ \A k \in UrlKeys(history) : Downloaded(k) = 1
    /\ pc \in AfterCrawl =>
          UrlKeys(history) = UrlKeys(loaded) \cup {UrlKey(u) : u \in DocsMet}

DedupKeyUniquenessWitness ==
    /\ sweep = 1 /\ pc = "done"
    /\ {<<1, 1>>, <<1, 2>>, <<2, 2>>} \subseteq FetchedDetails
    /\ Len(DetailPage(upstream, 1)) >= 4
    /\ DetailPage(upstream, 1)[1].url = DetailPage(upstream, 1)[2].url
    /\ UrlKey(1) \in DOMAIN disk /\ UrlKey(2) \in DOMAIN disk
    /\ disk[UrlKey(1)].name = disk[UrlKey(2)].name
    /\ disk[UrlKey(1)].detail_page = 1 /\ disk[UrlKey(2)].detail_page = 1
    /\ SentTo(UrlKey(1)) = 1 /\ SentTo(UrlKey(2)) = 1

\* C12: the first matching rule wins. The label that classify_phase returns
\* is the label of the rule of lowest index whose pattern is found in
\* 'name url', and 'Documento' when no pattern is found; a name that holds
\* 'edital de abertura' gets the label of the first rule whatever else the
\* name and the URL hold, and no label is given without the words of its
\* rule in the string.
Combined == arg.name \o " " \o arg.url
Matching ==
    {i \in 1..Len(PHASE_MAP) : re_search(PHASE_RE[i], LowerChars_of(Combined))}
LabelOfFirst(M) ==
    IF M = {} THEN "Documento"
    ELSE PHASE_MAP[CHOOSE i \in M : \A j \in M : i <= j][2]
LabelMeans(label, low) ==
    /\ label = "Edital de Abertura" =>
          Contains(low, "edital") /\ Contains(low, "abertura")
    /\ label = "Homologação" => Contains(low, "homologa")
    /\ label = "Documento" =>
          /\ ~Contains(low, "resultado")
          /\ ~Contains(low, "convocação")
          /\ ~Contains(low, "deferimento")

FirstMatchWins ==
    pc = "return" =>
        /\ ret = LabelOfFirst(Matching)
        /\ Contains(lower(arg.name), "edital de abertura") =>
              ret = "Edital de Abertura"
        /\ LabelMeans(ret, lower(Combined))

FirstMatchWinsWitness ==
    /\ pc = "return"
    /\ Contains(arg.name, "edital de abertura")
    /\ Contains(arg.name, "Classificação Final")
    /\ Contains(arg.url, "CLASSIFICAOFINAL")
    /\ Cardinality(Matching) >= 2
    /\ ret = "Edital de Abertura"

\* C13 as stated: a name that holds both 'resultado' and 'classificação
\* final' is classified as 'Classificação Final'.
BothInName ==
    /\ Contains(lower(arg.name), "resultado")
    /\ Contains(lower(arg.name), "classificação final")

FinalRankingFirst ==
    (pc = "return" /\ BothInName) => ret = "Classificação Final"

\* C13 as amended: the rule of the general result (the 9th) stands before
\* the rule of the final ranking (the 10th), so a name that holds both
\* 'resultado' and 'classificação final' is never classified as
\* 'Classificação Final': its label is 'Resultado de Prova/Avaliação' unless
\* one of the eight rules before matches the name or the URL.
RuleOf(label) == CHOOSE i \in 1..Len(PHASE_MAP) : PHASE_MAP[i][2] = label
EarlierLabel(M, label) ==
    IF \E i \in M : i < RuleOf("Resultado de Prova/Avaliação")
    THEN \E i \in M : /\ i < RuleOf("Resultado de Prova/Avaliação")
                      /\ label = PHASE_MAP[i][2]
    ELSE label = "Resultado de Prova/Avaliação"

GeneralResultFirst ==
    (pc = "return" /\ BothInName) =>
        /\ ret # "Classificação Final"
        /\ EarlierLabel(Matching, ret)

GeneralResultFirstWitness ==
    /\ pc = "return"
    /\ arg.name = "Resultado - Classificação Final 2026"
    /\ arg.url = "https://cps/dgsdad/docs/4411.pdf"
    /\ RuleOf("Classificação Final") \in Matching
    /\ ret = "Resultado de Prova/Avaliação"

\* C14 as stated: with no listing source configured the process ends with an
\* error before any network call: no fetch, no gazette request and no
\* notification is made, the history file is left as it was, and main does
\* not come to its regular end.
ConfigurationErrorIsFatal ==
    LISTING_PAGES = << >> =>
        /\ visited = {} /\ requests = 0 /\ sent = 0 /\ notif = EmptyMap
        /\ disk = EmptyMap
        /\ pc # "done"

\* C15 as stated: the result is true exactly when the document can be parsed
\* and the lower-cased name is in the lower-cased text of one of its pages,
\* or of one of its paragraphs or cells; it is false for a document whose
\* parsing raises.
UnitsOf(x) ==
    IF x.ext = "pdf" THEN x.content.texts
    ELSE x.content.texts \o x.content.cells
NameIn(text, name) == Contains(lower(text), lower(name))

MatchIffNameInDocument ==
    pc = "return" =>
        ret = (/\ arg.content.error_at = -1
               /\ \E i \in 1..Len(UnitsOf(arg)) : NameIn(UnitsOf(arg)[i], arg.name))

\* C15 as amended: the result is true exactly when the lower-cased name is
\* in the lower-cased text of a page, or of a paragraph or a cell, that is
\* read before any step of the parsing raises: the pages in order; the
\* paragraphs in order, then the cells. A name that stands in a cell only
\* is a match, and a document that cannot be opened gives false.
ReadBeforeError(x) ==
    {i \in 1..Len(UnitsOf(x)) :
        x.content.error_at = -1 \/ i < x.content.error_at}

MatchIffNameRead ==
    pc = "return" =>
        /\ ret = \E i \in ReadBeforeError(arg) : NameIn(UnitsOf(arg)[i], arg.name)
        /\ arg.content.error_at = 0 => ~ret

MatchIffNameReadWitness ==
    /\ pc = "return" /\ arg.ext = "docx" /\ arg.content.error_at = -1
    /\ \A i \in 1..Len(arg.content.texts) : ~NameIn(arg.content.texts[i], arg.name)
    /\ Len(arg.content.cells) = 2 /\ Len(arg.content.texts) = 2
    /\ ~NameIn(arg.content.cells[1], arg.name)
    /\ arg.content.cells[2] # arg.name /\ NameIn(arg.content.cells[2], arg.name)
    /\ ret

\* C16: the order of a sweep. load_history is the first call and is made
\* once; the listings are taken one at a time in the order of LISTING_PAGES,
\* every detail page of a listing (in the order of its links, each once)
\* before the next listing; search_doe_sp is called once, after the last
\* listing, and save_history once, after the search, as the last call; once
\* the history is saved nothing of the process changes any more.
Rank(c) ==
    CASE c[1] = "load_history" -> <<0, 0>>
      [] c[1] = "discover_detail_links" -> <<c[2], 0>>
      [] c[1] = "process_detail_page" ->
            <<c[2], FirstSeen(ListingPage(upstream, LISTING_PAGES[c[2]]))[c[3]]>>
      [] c[1] = "search_doe_sp" -> <<Len(LISTING_PAGES) + 1, 0>>
      [] OTHER -> <<Len(LISTING_PAGES) + 2, 0>>
Before(r1, r2) == r1[1] < r2[1] \/ (r1[1] = r2[1] /\ r1[2] < r2[2])
Times(name) == Cardinality({i \in 1..Len(calls) : calls[i][1] = name})
Listed == {calls[i][2] : i \in {j \in 1..Len(calls) :
                                   calls[j][1] = "discover_detail_links"}}

SweepOrdering ==
    /\ [](\A i \in 1..(Len(calls) - 1) : Before(Rank(calls[i]), Rank(calls[i + 1])))
    /\ [](pc = "idle" <=> calls = << >>)
    /\ [](pc # "idle" => calls[1][1] = "load_history")
    /\ [](pc \in AfterCrawl =>
            /\ Times("search_doe_sp") = 1
            /\ Listed = 1..Len(LISTING_PAGES)
            /\ \A l \in Listed : <<l, 0>> \notin failed =>
                  \A d \in LinksOf(l) :
                     \E i \in 1..Len(calls) :
                        calls[i] = <<"process_detail_page", l, d>>)
    /\ [](pc = "done" <=> Times("save_history") = 1)
    /\ [](pc = "done" =>
            /\ calls[Len(calls)][1] = "save_history"
            /\ calls[Len(calls) - 1][1] = "search_doe_sp"
            /\ disk = history)
    /\ [][visited' \ visited # {} \/ requests' > requests \/ sent' > sent =>
            loaded = disk /\ pc \notin {"idle", "save", "done"}]_vars
    /\ [][pc = "done" => sweep' = sweep + 1 /\ disk' = disk]_vars

SweepOrderingWitness ==
    /\ pc = "done" /\ sweep = 2
    /\ calls = << <<"load_history", 0, 0>>,
                  <<"discover_detail_links", 1, 0>>,
                  <<"process_detail_page", 1, 1>>,
                  <<"process_detail_page", 1, 2>>,
                  <<"discover_detail_links", 2, 0>>,
                  <<"process_detail_page", 2, 2>>,
                  <<"search_doe_sp", 0, 0>>,
                  <<"save_history", 0, 0>> >>

\* C17: the accounting of search_doe_sp, item by item. An item whose key is
\* not in the history gets one record with found_name true under doe:<id>,
\* one count and then one notification; an item whose key is in the history
\* gets none of them. So the count that is returned is the number of doe:
\* keys that the call inserted and of notifications that it sent, and every
\* doe: record says found_name true.
DoeSent == {k \in DOMAIN notif \ DOMAIN loaded : k[1] = "doe"}
InSearch == {"doe_request", "doe_item", "doe_notify", "doe_return"}

GazetteAccounting ==
    /\ [][(pc = "doe_item" /\ ii <= Len(items)) =>
            LET k == DoeKey(items[ii])
            IN IF k \in DOMAIN history
               THEN /\ UNCHANGED <<history, new_count, notif, sent>>
                    /\ pc' = "doe_item" /\ ii' = ii + 1
               ELSE /\ DOMAIN history' = DOMAIN history \cup {k}
                    /\ \A x \in DOMAIN history : history'[x] = history[x]
                    /\ history'[k].found_name = TRUE
                    /\ history'[k].source = "DOE-SP"
                    /\ new_count' = new_count + 1
                    /\ UNCHANGED <<notif, sent>>
                    /\ pc' = "doe_notify" /\ ii' = ii]_vars
    /\ [][pc = "doe_notify" =>
            LET k == DoeKey(items[ii])
            IN /\ Count(notif', k) = SentTo(k) + 1
               /\ \A x \in AllKeys \ {k} : Count(notif', x) = SentTo(x)
               /\ sent' = sent + 1
               /\ lastSend'.key = k /\ lastSend'.kind = "doe"
               /\ UNCHANGED <<history, new_count>>
               /\ pc' = "doe_item" /\ ii' = ii + 1]_vars
    /\ [](pc \in InSearch =>
            /\ new_count = Cardinality(DoeKeysNew)
            /\ DoeSent = DoeKeysNew \ Pending
            /\ \A k \in DoeSent : SentTo(k) = 1)
    /\ [](\A k \in DOMAIN history \cup DOMAIN disk :
            k[1] = "doe" =>
               (IF k \in DOMAIN history THEN history[k] ELSE disk[k]).found_name)

GazetteAccountingWitness ==
    /\ pc = "doe_return" /\ sweep = 2 /\ upstream = 2
    /\ evaluated = 4 /\ new_count = 1
    /\ DoeKeysNew = {DoeKey(4)}
    /\ {DoeKey(1), DoeKey(2), DoeKey(3)} \subseteq DOMAIN loaded
    /\ SentTo(DoeKey(4)) = 1 /\ history[DoeKey(4)].found_name

\* C18: a new document whose download fails, or that cannot be opened, is
\* recorded all the same, with found_name false, and the 'not found' message
\* is sent for it once; a document that has a record is never downloaded
\* again and its record never changes, in this sweep or in a later one, also
\* when the document holds the name.
HoldsName(url) ==
    \E i \in 1..Len(Content(url).texts \o Content(url).cells) :
       NameIn((Content(url).texts \o Content(url).cells)[i], MEU_NOME)

FailedDownloadIsRecorded ==
    /\ [][(pc = "doc" /\ dj <= Len(docs) /\ UrlKey(docs[dj].url) \notin DOMAIN history
             /\ (<<-1, docs[dj].url>> \in failed' \/ Content(docs[dj].url).error_at = 0)) =>
            /\ UrlKey(docs[dj].url) \in DOMAIN history'
            /\ ~history'[UrlKey(docs[dj].url)].found_name
            /\ pc' = "doc_notify" /\ dj' = dj]_vars
    /\ [][(pc = "doc_notify" /\ ~history[UrlKey(docs[dj].url)].found_name) =>
            /\ lastSend'.key = UrlKey(docs[dj].url)
            /\ lastSend'.kind = "not_found"
            /\ Count(notif', UrlKey(docs[dj].url)) = 1]_vars
    /\ [][\A k \in UrlKeys(history) \cup UrlKeys(disk) :
            /\ Count(downloads', k) = Downloaded(k)
            /\ k \in DOMAIN disk => k \in DOMAIN disk' /\ disk'[k] = disk[k]
            /\ (k \in DOMAIN history /\ pc # "done") =>
                  k \in DOMAIN history' /\ history'[k] = history[k]
            /\ k \notin Pending => Count(notif', k) = SentTo(k)]_vars

FailedDownloadWitness ==
    /\ sweep = 2 /\ pc = "done"
    /\ <<1, 1>> \in visited \ failed
    /\ UrlKey(1) \in DOMAIN loaded /\ UrlKey(2) \in DOMAIN loaded
    /\ ~disk[UrlKey(1)].found_name /\ HoldsName(1) /\ Content(1).error_at = -1
    /\ ~disk[UrlKey(2)].found_name /\ HoldsName(2) /\ Content(2).error_at = 0
    /\ Downloaded(UrlKey(1)) = 1 /\ SentTo(UrlKey(1)) = 1
    /\ Downloaded(UrlKey(2)) = 1 /\ SentTo(UrlKey(2)) = 1

\* C19: the record of an item is in the history before send_whatsapp is
\* called for it, and no call is made for a key that had one before. When
\* the message is not delivered the sweep goes on with the next document or
\* gazette item, the record stays as it is, and the key is in the saved
\* history, so no sweep calls send_whatsapp for it again.
Sending == sent' = sent + 1

RecordBeforeNotification ==
    /\ [][Sending =>
            /\ lastSend'.key \in DOMAIN history
            /\ history' = history
            /\ SentTo(lastSend'.key) = 0
            /\ Count(notif', lastSend'.key) = 1
            /\ \A k \in AllKeys \ {lastSend'.key} : Count(notif', k) = SentTo(k)]_vars
    /\ [][(Sending /\ ~lastSend'.ok) =>
            /\ pc = "doc_notify" => pc' = "doc" /\ dj' = dj + 1
            /\ pc = "doe_notify" => pc' = "doe_item" /\ ii' = ii + 1
            /\ pc \in {"doc_notify", "doe_notify"}]_vars
    /\ [][pc # "done" => \A k \in DOMAIN history :
                            k \in DOMAIN history' /\ history'[k] = history[k]]_vars
    /\ [][\A k \in DOMAIN notif :
            /\ k \in DOMAIN disk => k \in DOMAIN disk'
            /\ k \notin Pending => Count(notif', k) = SentTo(k)]_vars
    /\ [](pc = "done" => DOMAIN notif \subseteq DOMAIN disk)

RecordBeforeNotificationWitness ==
    /\ pc = "doc" /\ dj = 3 /\ di = 1
    /\ docs[1].url = docs[2].url
    /\ lastSend.key = UrlKey(docs[1].url) /\ ~lastSend.ok
    /\ SentTo(lastSend.key) = 1
    /\ lastSend.key \in DOMAIN history

\* C20: the count that main reports. Between two detail pages, and from the
\* return of the gazette search on, total_new is the number of keys that the
\* sweep added to the loaded history and the number of calls of
\* send_whatsapp of the sweep; at the end of the sweep it is the number of
\* keys of the saved history less that of the loaded one.
Added == Cardinality(DOMAIN history) - Cardinality(DOMAIN loaded)

TotalNewIsExact ==
    /\ pc \in {"listing", "links", "detail", "save", "done"} =>
          total_new = Added /\ total_new = sent
    /\ pc \in InSearch \ {"doe_notify"} =>
          total_new + new_count = Added /\ total_new + new_count = sent
    /\ pc = "done" =>
          /\ total_new = Cardinality(DOMAIN disk) - Cardinality(DOMAIN loaded)
          /\ total_new = Cardinality(DOMAIN disk \ DOMAIN loaded)

TotalNewIsExactWitness ==
    /\ pc = "done" /\ sweep = 2
    /\ Cardinality(DOMAIN loaded) = 5
    /\ Cardinality(DOMAIN disk) = 7
    /\ total_new = 2 /\ sent = 2 /\ new_count = 1
    /\ DOMAIN disk \ DOMAIN loaded = {UrlKey(3), DoeKey(4)}

====
